---- MODULE Spec2Model ----
(***************************************************************************)
(* Model of app.py, the Resume-JD Matching System (a Streamlit script).    *)
(*                                                                         *)
(* Text is a sequence of one-character strings.  A percentage is an        *)
(* integer number of hundredths of a percent (what round(2) keeps), so     *)
(* 35.0 is 3500 and 93.6 is 9360.  An embedding is a pair of integers.     *)
(*                                                                         *)
(* Streamlit runs the whole script again on every widget interaction; the  *)
(* objects returned by the st.cache_resource loader are the same objects   *)
(* in every rerun and in every session.                                    *)
(***************************************************************************)
EXTENDS Integers, Sequences, FiniteSets, TLC

\* ------------------------------------------------------------------
\* Bounds and input alphabets
\* ------------------------------------------------------------------
\* Longest text a user types into the resume area or the question box.
MaxLen == 1

\* Characters a user types: a lower-case letter, an upper-case letter, a blank.
Alphabet == {"a", "B", " "}

Texts == UNION {[1..n -> Alphabet] : n \in 0..MaxLen}

Sessions == {"s1", "s2"}

Sections == {"Home", "About", "AI"}

\* ------------------------------------------------------------------
\* Python string operations used by the script
\* ------------------------------------------------------------------
IsSpace(c) == c \in {" ", "\n"}

RECURSIVE LStrip(_)
LStrip(s) == IF s # <<>> /\ IsSpace(Head(s)) THEN LStrip(Tail(s)) ELSE s

RECURSIVE RStrip(_)
RStrip(s) ==
    IF s # <<>> /\ IsSpace(s[Len(s)]) THEN RStrip(SubSeq(s, 1, Len(s) - 1)) ELSE s

\* str.strip()
Strip(s) == RStrip(LStrip(s))

LowerChar(c) == IF c = "A" THEN "a" ELSE IF c = "B" THEN "b" ELSE c

\* str.lower()
Lower(s) == [i \in 1..Len(s) |-> LowerChar(s[i])]

\* `sub in s` on strings: sub occurs as a contiguous substring of s
Contains(sub, s) ==
    \E i \in 0..(Len(s) - Len(sub)) : SubSeq(s, i + 1, i + Len(sub)) = sub

\* Faulty variant: the text is tested without strip()
IsBlankUnstripped(s) == s = <<>>

\* `if text.strip()` is false
IsBlank(s) == Strip(s) = <<>>

\* str.split("\n\n"): non-overlapping separators, left to right
RECURSIVE SplitBlankLines(_)
SplitBlankLines(s) ==
    LET seps == {i \in 1..(Len(s) - 1) : s[i] = "\n" /\ s[i + 1] = "\n"}
    IN  IF seps = {} THEN <<s>>
        ELSE LET i == CHOOSE k \in seps : \A m \in seps : k <= m
             IN  <<SubSeq(s, 1, i - 1)>> \o SplitBlankLines(SubSeq(s, i + 2, Len(s)))

\* [f(x) for x in xs]
RECURSIVE MapStripLower(_)
MapStripLower(xs) ==
    IF xs = <<>> THEN <<>> ELSE <<Lower(Strip(Head(xs)))>> \o MapStripLower(Tail(xs))

RECURSIVE MapStrip(_)
MapStrip(xs) == IF xs = <<>> THEN <<>> ELSE <<Strip(Head(xs))>> \o MapStrip(Tail(xs))

NonBlank(s) == ~IsBlank(s)

\* skills = [s.strip().lower() for s in f if s.strip()]
LoadSkills(lines) == MapStripLower(SelectSeq(lines, NonBlank))

\* paragraphs = [p.strip() for p in f.read().split("\n\n") if p.strip()]
LoadParagraphs(content) == MapStrip(SelectSeq(SplitBlankLines(content), NonBlank))

\* ------------------------------------------------------------------
\* The sentence encoder and cosine similarity (library code)
\* ------------------------------------------------------------------
\* SentenceTransformer.encode: a deterministic function of the text.  The
\* stand-in maps a text to a direction fixed by the letters it holds.
Encode(text) ==
    LET l == Lower(text)
        hasA == \E i \in 1..Len(l) : l[i] = "a"
        hasB == \E i \in 1..Len(l) : l[i] = "b"
    IN  IF hasA /\ hasB THEN <<3, 4>>
        ELSE IF hasA THEN <<1, 0>>
        ELSE IF hasB THEN <<0, 1>>
        ELSE <<0, 0>>

\* An array holding the values of f, computed once
Array(f) == f \o <<>>

EncodeAll(texts) == Array([i \in 1..Len(texts) |-> Encode(texts[i])])

Dot(u, v) == u[1] * v[1] + u[2] * v[2]

\* L2 norm (components are non-negative, so it is at most their sum); every
\* embedding of the model has an integer norm
Norm(u) ==
    CHOOSE r \in 0..(u[1] + u[2]) : r * r <= Dot(u, u) /\ (r + 1) * (r + 1) > Dot(u, u)

\* sklearn normalises each row, a zero norm being replaced by 1
SafeNorm(u) == LET n == Norm(u) IN IF n = 0 THEN 1 ELSE n

\* numpy round: to nearest, halves to even (operands are non-negative here)
RoundDiv(n, d) ==
    LET q == n \div d
        r == n % d
    IN  IF 2 * r > d \/ (2 * r = d /\ q % 2 = 1) THEN q + 1 ELSE q

\* (cosine_similarity([u], [v]) * 100).round(2), in hundredths of a percent
CosinePct(u, v) == RoundDiv(Dot(u, v) * 10000, SafeNorm(u) * SafeNorm(v))

\* cosine_similarity([q], embs)[0], unrounded ordering key for argmax:
\* the cosine scaled by 10^6 and truncated
CosineMicro(u, v) == (Dot(u, v) * 1000000) \div (SafeNorm(u) * SafeNorm(v))

\* ------------------------------------------------------------------
\* Files of a deployment
\* ------------------------------------------------------------------
Job(t, d) == [title |-> t, clean_description |-> d]

\* jobs_processed.csv
JobsCsv == <<
    Job("J1", <<"a">>),
    Job("J2", <<"B">>),
    Job("J3", <<"a", "B">>),
    Job("J4", <<"a">>),
    Job("J5", <<" ">>),
    Job("J6", <<"a">>),
    Job("J7", <<"B", "a">>) >>

\* job_embeddings.npy, one row per job
JobEmbeddingsNpy ==
    << <<1, 0>>, <<1, 0>>, <<24, 7>>, <<4, 3>>, <<1, 0>>, <<3, 4>>, <<1, 0>> >>

\* skills.txt, line by line
SkillsTxt == << <<"a", "\n">>, <<" ", "B", " ", "\n">>, <<"\n">>, <<"A", "b", "\n">> >>

\* knowledge_base.txt
KnowledgeBaseTxt ==
    <<"B", "\n", "\n", "a", "\n", "\n", " ", "\n", "\n", "A", "\n", "\n", "\n", "a", "B", "\n">>

Deployment(jobs, embs, kb, present) ==
    [jobs_csv |-> jobs, job_embeddings_npy |-> embs, skills_txt |-> SkillsTxt,
     knowledge_base_txt |-> kb, present |-> present]

\* The deployments considered: a consistent one, an embedding matrix one row
\* short, an empty job corpus with a knowledge base that holds no paragraph,
\* and a missing file.
Deployments == [
    consistent |-> Deployment(JobsCsv, JobEmbeddingsNpy, KnowledgeBaseTxt, TRUE),
    short_embeddings |->
        Deployment(JobsCsv, SubSeq(JobEmbeddingsNpy, 1, Len(JobEmbeddingsNpy) - 1),
                   KnowledgeBaseTxt, TRUE),
    empty_corpus |-> Deployment(<<>>, <<>>, <<" ", "\n">>, TRUE),
    missing_file |-> Deployment(JobsCsv, JobEmbeddingsNpy, KnowledgeBaseTxt, FALSE) ]

\* Orders that sort_values' default kind="quicksort" may leave equal keys in.
TieOrders == {"in_order", "reversed"}

\* ------------------------------------------------------------------
\* State
\* ------------------------------------------------------------------
VARIABLES
    deployment,       \* which deployment's files are on disk (never written)
    quicksortTies,    \* how this build's quicksort orders equal keys
    phase,            \* "startup", "running" or "aborted"
    df,               \* shared: the job table, with its match_percentage column
    job_embeddings,   \* shared
    skills_list,      \* shared
    kb_paragraphs,    \* shared
    kb_embeddings,    \* shared
    section,          \* per session: st.session_state.section
    text,             \* per session: the input of the request whose result is shown
    pc,               \* per session: position inside the Analyze handler
    sorted_df,        \* per session: the handler's local sorted_df
    out               \* per session: what the last rerun rendered

\* The files on disk
files == Deployments[deployment]

shared == <<df, job_embeddings, skills_list, kb_paragraphs, kb_embeddings>>
vars == <<deployment, quicksortTies, phase, df, job_embeddings, skills_list, kb_paragraphs,
          kb_embeddings, section, text, pc, sorted_df, out>>

\* A table without the match_percentage column
NoColumn == <<>>

Rendered(kind, jobs, warning, answer) ==
    [kind |-> kind, jobs |-> jobs, warning |-> warning, answer |-> answer]

Nothing == Rendered("none", <<>>, FALSE, <<>>)
ValidationWarning == Rendered("validation", <<>>, TRUE, <<>>)
Exception == Rendered("error", <<>>, FALSE, <<>>)

Init ==
    /\ deployment \in DOMAIN Deployments
    /\ quicksortTies \in TieOrders
    /\ phase = "startup"
    /\ df = [rows |-> <<>>, match_percentage |-> NoColumn]
    /\ job_embeddings = <<>>
    /\ skills_list = <<>>
    /\ kb_paragraphs = <<>>
    /\ kb_embeddings = <<>>
    /\ section = [s \in Sessions |-> "Home"]
    /\ text = [s \in Sessions |-> <<>>]
    /\ pc = [s \in Sessions |-> "idle"]
    /\ sorted_df = [s \in Sessions |-> <<>>]
    /\ out = [s \in Sessions |-> Nothing]

\* ------------------------------------------------------------------
\* Startup: load_all_resources, run once and cached
\* ------------------------------------------------------------------
Load ==
    /\ phase = "startup"
    /\ IF files.present
       THEN /\ phase' = "running"
            /\ df' = [rows |-> files.jobs_csv, match_percentage |-> NoColumn]
            /\ job_embeddings' = files.job_embeddings_npy
            /\ skills_list' = LoadSkills(files.skills_txt)
            /\ kb_paragraphs' = LoadParagraphs(files.knowledge_base_txt)
            /\ kb_embeddings' = EncodeAll(LoadParagraphs(files.knowledge_base_txt))
       ELSE \* open / read_csv / np.load raises: the script never gets past line 38
            /\ phase' = "aborted"
            /\ UNCHANGED shared
    /\ UNCHANGED <<deployment, quicksortTies, section, text, pc, sorted_df, out>>

\* ------------------------------------------------------------------
\* Sidebar navigation
\* ------------------------------------------------------------------
\* A sidebar button: set_section(name), then a rerun that renders no result;
\* text[s] is the input of the request whose result is on the page.
set_section(s, name) ==
    /\ phase = "running"
    /\ pc[s] = "idle"
    /\ section' = [section EXCEPT ![s] = name]
    /\ text' = [text EXCEPT ![s] = <<>>]
    /\ sorted_df' = [sorted_df EXCEPT ![s] = <<>>]
    /\ out' = [out EXCEPT ![s] = Nothing]
    /\ UNCHANGED <<deployment, quicksortTies, phase, shared, pc>>

\* ------------------------------------------------------------------
\* Home section: "Analyze Matching & Skills"
\* ------------------------------------------------------------------
TopN == 5
MinThreshold == 3500

Min(a, b) == IF a < b THEN a ELSE b

\* Faulty variant: the text is not lower-cased
ExtractCaseSensitive(t) ==
    {skills_list[k] : k \in {m \in 1..Len(skills_list) : Contains(skills_list[m], t)}}

\* {s for s in skills_list if s in text.lower()}
Extract(t) ==
    {skills_list[k] : k \in {m \in 1..Len(skills_list) : Contains(skills_list[m], Lower(t))}}

\* cosine_similarity raises on an empty matrix; the column assignment raises
\* when the number of values differs from the number of rows
MatchRaises ==
    \/ Len(job_embeddings) = 0
    \/ Len(job_embeddings) # Len(df.rows)

\* (cosine_similarity([model.encode(resume)], job_embeddings)[0] * 100).round(2)
ScoreColumn(resume) ==
    LET r_emb == Encode(resume)
    IN  Array([i \in 1..Len(job_embeddings) |-> CosinePct(r_emb, job_embeddings[i])])

\* Faulty variant: a row keeps the best score of the requests so far
AssignColumnKeepBest(d, col) ==
    IF d.match_percentage = NoColumn THEN [d EXCEPT !.match_percentage = col]
    ELSE [d EXCEPT !.match_percentage =
              Array([i \in 1..Len(col) |-> IF @[i] > col[i] THEN @[i] ELSE col[i]])]

\* df["match_percentage"] = col
AssignColumn(d, col) == [d EXCEPT !.match_percentage = col]

\* Whether row k precedes row i when their keys are equal
TieBefore(k, i) == IF quicksortTies = "in_order" THEN k < i ELSE k > i

\* d.sort_values("match_percentage", ascending=False): a new table, kept as
\* the row labels in their new order, each with its copy of the sorted column;
\* the other columns of a row are those of df.rows, which nothing writes
SortValues(d) ==
    LET n == Len(d.rows)
        col == d.match_percentage
        Before(k, i) == col[k] > col[i] \/ (col[k] = col[i] /\ TieBefore(k, i))
        \* how many rows precede row i
        rank == Array([i \in 1..n |-> Cardinality({k \in 1..n : Before(k, i)})])
        at == Array([p \in 1..n |-> CHOOSE i \in 1..n : rank[i] = p - 1])
    IN  Array([p \in 1..n |-> [row |-> at[p], match_percentage |-> col[at[p]]]])

\* sorted_df.head(5)
HeadRows(sorted) == SubSeq(sorted, 1, Min(TopN, Len(sorted)))

\* Faulty variant: the matched skills are not looked at
GateScoreOnly(r, user_skills) == r.match_percentage >= MinThreshold

\* job_skills = {s for s in skills_list if s in str(row['clean_description']).lower()}
JobSkills(r) == Extract(df.rows[r.row].clean_description)

\* row['match_percentage'] >= min_threshold and len(matched) > 0
Gate(r, user_skills) ==
    /\ r.match_percentage >= MinThreshold
    /\ Cardinality(JobSkills(r) \cap user_skills) > 0

\* missing = job_skills - user_skills
Missing(r, user_skills) == JobSkills(r) \ user_skills

\* One expander: title, percentage, matched and missing skill chips
Expander(r, user_skills) ==
    [row |-> r.row, title |-> df.rows[r.row].title,
     match_percentage |-> r.match_percentage,
     matched |-> JobSkills(r) \cap user_skills,
     missing |-> Missing(r, user_skills)]

\* Faulty variant: the flag is set by the score alone
ResultsFoundByScore(head, user_skills) ==
    \E i \in 1..Len(head) : head[i].match_percentage >= MinThreshold

\* results_found after the loop
ResultsFound(head, user_skills) == \E i \in 1..Len(head) : Gate(head[i], user_skills)

\* The loop over the first rows, then the no-results warning
DisplayLoop(sorted, user_skills) ==
    LET head == HeadRows(sorted)
        Passes(r) == Gate(r, user_skills)
        shown == SelectSeq(head, Passes)
    IN  Rendered("jobs",
                 Array([i \in 1..Len(shown) |-> Expander(shown[i], user_skills)]),
                 ~ResultsFound(head, user_skills),
                 <<>>)

\* The whole handler, run to completion on the resume in the text area
Analyze(s, resume_text) ==
    /\ phase = "running"
    /\ pc[s] = "idle"
    /\ section[s] = "Home"
    /\ text' = [text EXCEPT ![s] = resume_text]
    /\ IF IsBlank(resume_text)
       THEN /\ out' = [out EXCEPT ![s] = ValidationWarning]
            /\ sorted_df' = [sorted_df EXCEPT ![s] = <<>>]
            /\ UNCHANGED df
       ELSE IF MatchRaises
       THEN /\ out' = [out EXCEPT ![s] = Exception]
            /\ sorted_df' = [sorted_df EXCEPT ![s] = <<>>]
            /\ UNCHANGED df
       ELSE /\ df' = AssignColumn(df, ScoreColumn(resume_text))
            /\ sorted_df' = [sorted_df EXCEPT ![s] = SortValues(df')]
            /\ out' = [out EXCEPT ![s] = DisplayLoop(sorted_df'[s], Extract(resume_text))]
    /\ UNCHANGED <<deployment, quicksortTies, phase, job_embeddings, skills_list,
                   kb_paragraphs, kb_embeddings, section, pc>>

\* The handler as a thread of its own runs it: lines 126-131 ...
AnalyzeScore(s, resume_text) ==
    /\ phase = "running"
    /\ pc[s] = "idle"
    /\ section[s] = "Home"
    /\ text' = [text EXCEPT ![s] = resume_text]
    /\ sorted_df' = [sorted_df EXCEPT ![s] = <<>>]
    /\ IF IsBlank(resume_text)
       THEN /\ out' = [out EXCEPT ![s] = ValidationWarning]
            /\ UNCHANGED <<df, pc>>
       ELSE IF MatchRaises
       THEN /\ out' = [out EXCEPT ![s] = Exception]
            /\ UNCHANGED <<df, pc>>
       ELSE /\ df' = AssignColumn(df, ScoreColumn(resume_text))
            /\ pc' = [pc EXCEPT ![s] = "ranking"]
            /\ out' = [out EXCEPT ![s] = Nothing]
    /\ UNCHANGED <<deployment, quicksortTies, phase, job_embeddings, skills_list,
                   kb_paragraphs, kb_embeddings, section>>

\* ... and lines 132-157, which read the shared table again
AnalyzeRank(s) ==
    /\ pc[s] = "ranking"
    /\ sorted_df' = [sorted_df EXCEPT ![s] = SortValues(df)]
    /\ out' = [out EXCEPT ![s] = DisplayLoop(sorted_df'[s], Extract(text[s]))]
    /\ pc' = [pc EXCEPT ![s] = "idle"]
    /\ UNCHANGED <<deployment, quicksortTies, phase, shared, section, text>>

\* ------------------------------------------------------------------
\* AI section: the "Ask" form
\* ------------------------------------------------------------------
AnswerRaises == Len(kb_embeddings) = 0

\* cosine_similarity([model.encode(query)], kb_embeddings)[0]
QuerySims(query) ==
    LET q_emb == Encode(query)
    IN  Array([i \in 1..Len(kb_embeddings) |-> CosineMicro(q_emb, kb_embeddings[i])])

\* Faulty variant: the last index holding the maximum
ArgMaxLast(sims) ==
    CHOOSE i \in 1..Len(sims) :
        /\ \A j \in 1..Len(sims) : sims[j] <= sims[i]
        /\ \A j \in (i + 1)..Len(sims) : sims[j] < sims[i]

\* sims.argmax(): the first index holding the maximum
ArgMax(sims) ==
    CHOOSE i \in 1..Len(sims) :
        /\ \A j \in 1..Len(sims) : sims[j] <= sims[i]
        /\ \A j \in 1..(i - 1) : sims[j] < sims[i]

\* Submitting the form with the question q in the box
Ask(s, q) ==
    /\ phase = "running"
    /\ pc[s] = "idle"
    /\ section[s] = "AI"
    /\ text' = [text EXCEPT ![s] = q]
    /\ out' = [out EXCEPT ![s] =
                 IF IsBlank(q) THEN ValidationWarning
                 ELSE IF AnswerRaises THEN Exception
                 ELSE Rendered("answer", <<>>, FALSE, kb_paragraphs[ArgMax(QuerySims(q))])]
    /\ UNCHANGED <<deployment, quicksortTies, phase, shared, section, pc, sorted_df>>

\* ------------------------------------------------------------------
\* Specifications
\* ------------------------------------------------------------------
\* One request at a time, each run to completion
Next ==
    \/ Load
    \/ \E s \in Sessions, name \in Sections : set_section(s, name)
    \/ \E s \in Sessions, resume_text \in Texts : Analyze(s, resume_text)
    \/ \E s \in Sessions, q \in Texts : Ask(s, q)

Spec == Init /\ [][Next]_vars

\* Sessions run their scripts in threads of one process
NextConc ==
    \/ Load
    \/ \E s \in Sessions, name \in Sections : set_section(s, name)
    \/ \E s \in Sessions, resume_text \in Texts : AnalyzeScore(s, resume_text)
    \/ \E s \in Sessions : AnalyzeRank(s)
    \/ \E s \in Sessions, q \in Texts : Ask(s, q)

ConcSpec == Init /\ [][NextConc]_vars

\* ------------------------------------------------------------------
\* Properties
\* ------------------------------------------------------------------
Vocabulary == {skills_list[k] : k \in 1..Len(skills_list)}

\* Vocabulary terms that occur in the lower-cased text t
TermsIn(t) == {v \in Vocabulary : Contains(v, Lower(t))}

JobRows == 1..Len(df.rows)

\* The rows of the expanders on session s's page
Returned(s) == {out[s].jobs[k].row : k \in 1..Len(out[s].jobs)}

\* Session s's page shows the outcome of a match on a non-blank resume
Matched(s) == section[s] = "Home" /\ out[s].kind = "jobs"

\* Row i clears the threshold-and-matched-skill gate for the resume of session s
PassesGate(s, i) ==
    /\ ScoreColumn(text[s])[i] >= MinThreshold
    /\ TermsIn(df.rows[i].clean_description) \cap TermsIn(text[s]) # {}

\* C1: for a non-blank resume the jobs shown are exactly the jobs that are
\* among the five most similar to that resume, reach 35 percent and share at
\* least one skill with it; each is shown once.
C1_TopFiveGated ==
    \A s \in Sessions : Matched(s) =>
        LET col == ScoreColumn(text[s])
        IN  /\ Len(out[s].jobs) = Cardinality(Returned(s))
            /\ \E T \in SUBSET JobRows :
                /\ Cardinality(T) = Min(TopN, Len(df.rows))
                /\ \A i \in T, k \in JobRows \ T : col[i] >= col[k]
                /\ Returned(s) = {i \in T : PassesGate(s, i)}

\* A page with results on which a job that clears the gate is left out, being
\* outside the top five, and a top-five job above the threshold is left out,
\* sharing no skill with the resume.
C1_Witness ==
    \E s \in Sessions :
        /\ Matched(s)
        /\ Returned(s) # {}
        /\ \E i \in JobRows \ Returned(s) : PassesGate(s, i)
        /\ \E p \in 1..Min(TopN, Len(sorted_df[s])) :
            /\ sorted_df[s][p].match_percentage >= MinThreshold
            /\ sorted_df[s][p].row \notin Returned(s)

\* Session s changed its page in this step
Acted(s) == text'[s] # text[s] \/ out'[s] # out[s]

\* C2: a match on a blank resume and an answer on a blank query render the
\* validation warning and nothing else: no ranking, and no shared state changes.
C2_BlankInputOnlyValidates ==
    [][\A s \in Sessions :
          (Acted(s) /\ out'[s].kind # "none" /\ Strip(text'[s]) = <<>>) =>
              /\ out'[s] = ValidationWarning
              /\ sorted_df'[s] = <<>>
              /\ UNCHANGED shared]_vars

\* A whitespace-only resume and a whitespace-only query, each answered by the
\* validation warning.
C2_Witness ==
    \E s, t \in Sessions :
        /\ section[s] = "Home" /\ text[s] = <<" ">> /\ out[s] = ValidationWarning
        /\ section[t] = "AI" /\ text[t] = <<" ">> /\ out[t] = ValidationWarning

\* C3: a deployment whose embedding matrix and job table differ in row count,
\* or whose job table or knowledge base is empty, never gets past startup, so
\* no request is served against it or fails at request time.
C3_StartupRejectsBadCorpus ==
    /\ phase = "running" =>
        /\ Len(job_embeddings) = Len(df.rows)
        /\ Len(df.rows) > 0
        /\ Len(kb_paragraphs) > 0
    /\ \A s \in Sessions : out[s].kind # "error"

\* C4: the ranking a match uses holds every job row exactly once, by
\* similarity descending, rows of equal similarity in their corpus order.
C4_StableRanking ==
    \A s \in Sessions : sorted_df[s] # <<>> =>
        LET r == sorted_df[s]
        IN  /\ Len(r) = Len(df.rows)
            /\ {r[p].row : p \in 1..Len(r)} = JobRows
            /\ \A p, q \in 1..Len(r) : p < q =>
                \/ r[p].match_percentage > r[q].match_percentage
                \/ /\ r[p].match_percentage = r[q].match_percentage
                   /\ r[p].row < r[q].row

\* C5: for a non-blank resume the no-results warning is rendered exactly when
\* no job is shown.
C5_NoResultsSignal ==
    \A s \in Sessions : Matched(s) => (out[s].warning <=> out[s].jobs = <<>>)

\* One page with the no-results warning although a top-five job is above the
\* threshold, and one page with results.
C5_Witness ==
    \E s, t \in Sessions :
        /\ Matched(s) /\ out[s].warning
        /\ \E p \in 1..Min(TopN, Len(sorted_df[s])) :
               sorted_df[s][p].match_percentage >= MinThreshold
        /\ Matched(t) /\ out[t].jobs # <<>>

\* C6: two requests of the same kind with the same input render the same
\* page, whatever was requested in between.
C6_Idempotent ==
    \A s, t \in Sessions :
        (/\ section[s] = section[t]
         /\ text[s] = text[t]
         /\ out[s].kind # "none"
         /\ out[t].kind # "none") => out[s] = out[t]

\* Two sessions holding the results of a match on the same non-blank resume.
C6_Witness ==
    \E s, t \in Sessions :
        /\ s # t
        /\ text[s] = text[t]
        /\ Matched(s) /\ Matched(t)
        /\ out[s].jobs # <<>>

\* C7: for every job shown, matched is the job's terms that are in the resume
\* and missing is the job's terms that are not, a term being in a text when
\* it is a contiguous substring of the lower-cased text.
C7_SkillSets ==
    \A s \in Sessions : Matched(s) =>
        \A k \in 1..Len(out[s].jobs) :
            LET j == out[s].jobs[k]
                jobSkills == TermsIn(df.rows[j.row].clean_description)
                userSkills == TermsIn(text[s])
            IN  /\ j.matched = jobSkills \cap userSkills
                /\ j.missing = jobSkills \ userSkills
                /\ j.matched \cap j.missing = {}
                /\ j.matched \cup j.missing = jobSkills
                /\ \A v \in j.missing : ~Contains(v, Lower(text[s]))

\* A job shown with a matched term and with a missing term of two characters.
C7_Witness ==
    \E s \in Sessions : Matched(s) /\
        \E k \in 1..Len(out[s].jobs) :
            /\ out[s].jobs[k].matched # {}
            /\ \E v \in out[s].jobs[k].missing : Len(v) = 2

\* The best paragraphs for session s's question
BestParagraphs(s) ==
    LET sims == QuerySims(text[s])
    IN  {i \in 1..Len(kb_paragraphs) : \A j \in 1..Len(kb_paragraphs) : sims[j] <= sims[i]}

\* C8: for a non-blank query the answer is one knowledge-base paragraph, of
\* the highest similarity to the query, the first such paragraph.
C8_BestParagraph ==
    \A s \in Sessions : out[s].kind = "answer" =>
        /\ Strip(text[s]) # <<>>
        /\ \E i \in BestParagraphs(s) :
            /\ \A j \in BestParagraphs(s) : i <= j
            /\ out[s].answer = kb_paragraphs[i]

\* An answer to a question for which two paragraphs are equally the best.
C8_Witness ==
    \E s \in Sessions : out[s].kind = "answer" /\ Cardinality(BestParagraphs(s)) > 1

\* What a match on resume alone in the process renders
MatchAlone(resume) ==
    DisplayLoop(SortValues(AssignColumn(df, ScoreColumn(resume))), Extract(resume))

\* C9: under every interleaving of the sessions' handlers, a session's page
\* is the one its own resume gives when its request runs alone.
C9_SessionsIsolated ==
    \A s \in Sessions : Matched(s) => out[s] = MatchAlone(text[s])

\* C10: no request changes the shared resources from what startup loaded.
C10_SharedStateReadOnly ==
    phase = "running" =>
        /\ df = [rows |-> files.jobs_csv, match_percentage |-> NoColumn]
        /\ job_embeddings = files.job_embeddings_npy
        /\ skills_list = LoadSkills(files.skills_txt)
        /\ kb_paragraphs = LoadParagraphs(files.knowledge_base_txt)
        /\ kb_embeddings = EncodeAll(LoadParagraphs(files.knowledge_base_txt))

====
